---- MODULE Spec2Model ----
(***************************************************************************)
(* Roue de la Chance: the persisted configuration store (useLocalStorage), *)
(* the application state (App), the wheel engine (Wheel.spin) and the      *)
(* category editor (SettingsModal), as one state machine.                  *)
(*                                                                         *)
(* Strings are sequences of one-character strings.  A JSON text is the     *)
(* sequence of its lexical tokens, each token a string.  Angles are exact  *)
(* rationals: a number of whole turns plus a number of units, UnitsPerTurn *)
(* units making 360 degrees, so that 360/n and 180/n are whole numbers of  *)
(* units for every n in 1..20.                                             *)
(***************************************************************************)
EXTENDS Integers, Sequences, FiniteSets, TLC

VARIABLES
  storage,          \* window.localStorage: key -> [present, text]
  storedValue,      \* useLocalStorage: key -> value held in React state
  lastWrittenJson,  \* useLocalStorage: key -> ref to the last JSON written
  isSpinning,       \* App state
  winner,           \* App state: [isNull, cat]
  showSettings,     \* App state
  showWinner,       \* App state
  currentRotation,  \* Wheel ref: accumulated rotation, an angle
  isAnimating,      \* Wheel ref
  flight,           \* the pending controls.start() of Wheel.spin, if any
  timers,           \* pending setTimeout callbacks of handleSpinAgain
  now,              \* Date.now()
  started,          \* history: 'spin started' notifications of this engine
  ended,            \* history: 'spin ended' notifications of this engine
  edits,            \* history: editor operations since the first page load
  reloads,          \* history: page reloads
  writeFailed,      \* history: key -> a setItem threw since the page load
  faults,           \* history: exceptions thrown by localStorage so far
  lastOp,           \* history: the handler that ran last
  io,               \* history: key -> what the last handler did to storage
  palette,          \* the arguments the palette utility is called with next
  calls             \* history: the calls of the palette utility, in order

vars == << storage, storedValue, lastWrittenJson, isSpinning, winner,
           showSettings, showWinner, currentRotation, isAnimating, flight,
           timers, now, started, ended, edits, reloads, writeFailed,
           faults, lastOp, io, palette, calls >>

appVars == << isSpinning, winner, showSettings, showWinner >>
wheelVars == << currentRotation, isAnimating, flight >>
storeVars == << storage, storedValue, lastWrittenJson, writeFailed, faults, io >>
paletteVars == << palette, calls >>

-----------------------------------------------------------------------------
(* Bounds of the model *)

MaxSpins == 2
MaxEdits == 2
MaxReloads == 1
MaxTimers == 1
MaxClock == 1
MaxFaults == 1
MaxShrink == 8
MaxCalls == 2

-----------------------------------------------------------------------------
(* Program constants *)

MAX_CATEGORIES == 20
MIN_CATEGORIES == 2
MAX_CATEGORY_NAME_LENGTH == 30
MAX_TITLE_LENGTH == 50

CategoriesKey == "wheel-categories"
TitleKey == "wheel-title"
Keys == {CategoriesKey, TitleKey}

Cat(i, n, c) == [id |-> i, name |-> n, color |-> c]

WHEEL_COLORS ==
  << <<"#", "F", "F", "6", "B", "9", "D">>,
     <<"#", "F", "F", "9", "F", "4", "3">>,
     <<"#", "F", "E", "C", "A", "5", "7">>,
     <<"#", "5", "C", "D", "8", "5", "A">>,
     <<"#", "4", "8", "D", "B", "F", "B">>,
     <<"#", "5", "4", "A", "0", "F", "F">>,
     <<"#", "A", "2", "9", "B", "F", "E">>,
     <<"#", "F", "F", "6", "B", "6", "B">>,
     <<"#", "F", "D", "7", "9", "A", "8">>,
     <<"#", "F", "D", "C", "B", "6", "E">>,
     <<"#", "0", "0", "B", "8", "9", "4">>,
     <<"#", "7", "4", "B", "9", "F", "F">>,
     <<"#", "E", "1", "7", "0", "5", "5">>,
     <<"#", "0", "0", "C", "E", "C", "9">>,
     <<"#", "6", "C", "5", "C", "E", "7">>,
     <<"#", "E", "8", "4", "3", "9", "3">> >>

\* Names and title are kept in ASCII: the emoji that ends each of them and
\* the accent of the fifth name are left out.
DEFAULT_CATEGORIES ==
  << Cat(<<"1">>, <<"P", "i", "z", "z", "a">>, WHEEL_COLORS[1]),
     Cat(<<"2">>, <<"S", "u", "s", "h", "i">>, WHEEL_COLORS[2]),
     Cat(<<"3">>, <<"B", "u", "r", "g", "e", "r">>, WHEEL_COLORS[3]),
     Cat(<<"4">>, <<"T", "a", "c", "o", "s">>, WHEEL_COLORS[4]),
     Cat(<<"5">>, <<"P", "a", "t", "e", "s">>, WHEEL_COLORS[5]),
     Cat(<<"6">>, <<"S", "a", "l", "a", "d", "e">>, WHEEL_COLORS[6]) >>

DEFAULT_TITLE ==
  <<"Q", "u", "'", "e", "s", "t", "-", "c", "e", " ", "q", "u", "'", "o", "n",
    " ", "m", "a", "n", "g", "e", " ", "?">>

InitialValue(key) ==
  IF key = CategoriesKey THEN DEFAULT_CATEGORIES ELSE DEFAULT_TITLE

-----------------------------------------------------------------------------
(* JSON.stringify and JSON.parse on the two value shapes the application  *)
(* stores: an array of {id, name, color} objects and a string.            *)

StringifyCategory(c) ==
  << <<"{">>, <<"i", "d">>, c.id, <<"n", "a", "m", "e">>, c.name,
     <<"c", "o", "l", "o", "r">>, c.color, <<"}">> >>

RECURSIVE StringifyItems(_)
StringifyItems(cs) ==
  IF cs = << >> THEN << >>
  ELSE StringifyCategory(Head(cs)) \o StringifyItems(Tail(cs))

JsonStringify(key, value) ==
  IF key = CategoriesKey
  THEN << <<"[">> >> \o StringifyItems(value) \o << <<"]">> >>
  ELSE << <<"\"">>, value, <<"\"">> >>

ObjectWidth == Len(StringifyCategory(DEFAULT_CATEGORIES[1]))

\* One object of the array: its eight tokens, or a syntax error.
ParseObjectOk(t) ==
  /\ Len(t) = ObjectWidth
  /\ t[1] = <<"{">>
  /\ t[2] = <<"i", "d">>
  /\ t[4] = <<"n", "a", "m", "e">>
  /\ t[6] = <<"c", "o", "l", "o", "r">>
  /\ t[8] = <<"}">>

RECURSIVE ParseItems(_)
ParseItems(t) ==
  IF t = << >> THEN [ok |-> TRUE, value |-> << >>]
  ELSE IF Len(t) < ObjectWidth \/ ~ParseObjectOk(SubSeq(t, 1, ObjectWidth))
  THEN [ok |-> FALSE, value |-> << >>]
  ELSE LET rest == ParseItems(SubSeq(t, ObjectWidth + 1, Len(t)))
       IN IF rest.ok
          THEN [ok |-> TRUE, value |-> << Cat(t[3], t[5], t[7]) >> \o rest.value]
          ELSE rest

\* [ok, value]: ok = FALSE stands for the SyntaxError JSON.parse throws.
JsonParse(key, text) ==
  IF key = CategoriesKey
  THEN IF Len(text) >= 2 /\ text[1] = <<"[">> /\ text[Len(text)] = <<"]">>
       THEN ParseItems(SubSeq(text, 2, Len(text) - 1))
       ELSE [ok |-> FALSE, value |-> << >>]
  ELSE IF Len(text) = 3 /\ text[1] = <<"\"">> /\ text[3] = <<"\"">>
       THEN [ok |-> TRUE, value |-> text[2]]
       ELSE [ok |-> FALSE, value |-> << >>]

-----------------------------------------------------------------------------
(* window.localStorage and the useLocalStorage hook *)

NoItem == [present |-> FALSE, text |-> << >>]
Item(text) == [present |-> TRUE, text |-> text]

\* if (item): null and the empty string are falsy
Truthy(cell) == cell.present /\ cell.text # << >>

Null == [isNull |-> TRUE, text |-> << >>]
Some(text) == [isNull |-> FALSE, text |-> text]

\* Mutant: an entry that does not parse yields an empty value.
InitialStateNoFallback(key, cell, readThrows) ==
  IF readThrows
  THEN [value |-> InitialValue(key), last |-> Null, read |-> "throw"]
  ELSE IF Truthy(cell)
  THEN LET p == JsonParse(key, cell.text)
       IN IF p.ok
          THEN [value |-> p.value, last |-> Some(cell.text), read |-> "ok"]
          ELSE [value |-> << >>, last |-> Some(cell.text), read |-> "corrupt"]
  ELSE [value |-> InitialValue(key),
        last |-> Some(JsonStringify(key, InitialValue(key))),
        read |-> "missing"]

\* The useState initializer.  readThrows: getItem throws.
\* Returns the state value, the ref and what the read found.
InitialState(key, cell, readThrows) ==
  IF readThrows
  THEN [value |-> InitialValue(key), last |-> Null, read |-> "throw"]
  ELSE IF Truthy(cell)
  THEN LET p == JsonParse(key, cell.text)
       IN IF p.ok
          THEN [value |-> p.value, last |-> Some(cell.text), read |-> "ok"]
          ELSE [value |-> InitialValue(key), last |-> Some(cell.text),
                read |-> "corrupt"]
  ELSE [value |-> InitialValue(key),
        last |-> Some(JsonStringify(key, InitialValue(key))),
        read |-> "missing"]

\* Mutant: the serialized value is not compared with the ref.
WriteEffectAlways(key, value, last, cell, writeThrows) ==
  LET currentJson == JsonStringify(key, value)
  IN IF writeThrows
     THEN [cell |-> cell, last |-> last, write |-> "fail"]
     ELSE [cell |-> Item(currentJson), last |-> Some(currentJson),
           write |-> "ok"]

\* Mutant: the ref is updated before setItem is called.
WriteEffectMarksFirst(key, value, last, cell, writeThrows) ==
  LET currentJson == JsonStringify(key, value)
  IN IF last = Some(currentJson)
     THEN [cell |-> cell, last |-> last, write |-> "skip"]
     ELSE IF writeThrows
     THEN [cell |-> cell, last |-> Some(currentJson), write |-> "fail"]
     ELSE [cell |-> Item(currentJson), last |-> Some(currentJson),
           write |-> "ok"]

\* Mutant: the comparison succeeds as soon as the ref holds anything.
WriteEffectOnce(key, value, last, cell, writeThrows) ==
  LET currentJson == JsonStringify(key, value)
  IN IF ~last.isNull
     THEN [cell |-> cell, last |-> last, write |-> "skip"]
     ELSE IF writeThrows
     THEN [cell |-> cell, last |-> last, write |-> "fail"]
     ELSE [cell |-> Item(currentJson), last |-> Some(currentJson),
           write |-> "ok"]

\* The write effect.  writeThrows: setItem throws.
\* Returns the storage cell, the ref and what the effect did.
WriteEffect(key, value, last, cell, writeThrows) ==
  LET currentJson == JsonStringify(key, value)
  IN IF last = Some(currentJson)
     THEN [cell |-> cell, last |-> last, write |-> "skip"]
     ELSE IF writeThrows
     THEN [cell |-> cell, last |-> last, write |-> "fail"]
     ELSE [cell |-> Item(currentJson), last |-> Some(currentJson),
           write |-> "ok"]

\* Mounting one hook: the initializer, then the effect of the first render.
MountStore(key, cell, readThrows, writeThrows) ==
  LET s == InitialState(key, cell, readThrows)
      w == WriteEffect(key, s.value, s.last, cell, writeThrows)
  IN [value |-> s.value, last |-> w.last, cell |-> w.cell,
      read |-> s.read, write |-> w.write]

categories == storedValue[CategoriesKey]
title == storedValue[TitleKey]

-----------------------------------------------------------------------------
(* Exact angles.  An angle is turns * 360 degrees + units * (360 /         *)
(* UnitsPerTurn) degrees with 0 <= units < UnitsPerTurn.                   *)

UnitsPerTurn == 2 * 232792560

Norm(t, u) == [turns |-> t + (u \div UnitsPerTurn), units |-> u % UnitsPerTurn]

Zero == Norm(0, 0)
Turns(k) == Norm(k, 0)

AngAdd(a, b) == Norm(a.turns + b.turns, a.units + b.units)

\* a - b, for a >= b
AngSub(a, b) == Norm(a.turns - b.turns - 1, a.units + UnitsPerTurn - b.units)

\* k * a, for k * a.units below 2^31
AngMul(k, a) == Norm(k * a.turns, k * a.units)

\* a / 2, for an even number of turns and units
AngHalf(a) == Norm(a.turns \div 2, (a.units \div 2) + (a.turns % 2) * (UnitsPerTurn \div 2))

\* a % 360, for a >= 0
Mod360(a) == Norm(0, a.units)

AngLess(a, b) == a.turns < b.turns \/ (a.turns = b.turns /\ a.units < b.units)

\* a and b differ by a whole number of turns
Congruent360(a, b) == a.units = b.units

-----------------------------------------------------------------------------
(* Wheel *)

\* segmentAngle = 360 / categories.length, for 1 <= n <= 20
SegmentAngle(n) == Norm(0, UnitsPerTurn \div n)

\* Mutant: the half segment is left out.
SegmentCenterAtEdge(winnerIndex, n) == AngMul(winnerIndex, SegmentAngle(n))

SegmentCenter(winnerIndex, n) ==
  AngAdd(AngMul(winnerIndex, SegmentAngle(n)), AngHalf(SegmentAngle(n)))

TargetAngle(winnerIndex, n) == AngSub(Turns(1), SegmentCenter(winnerIndex, n))

\* 5 + Math.floor(Math.random() * 3), r = Math.floor(Math.random() * 3)
\* Mutant: the count of extra turns starts at 4.
ExtraSpinsFromFour(r) == 4 + r

ExtraSpins(r) == 5 + r

TotalRotation(rotation, extraSpins, targetAngle) ==
  AngAdd(AngAdd(rotation, Turns(extraSpins)), targetAngle)

\* Mutant: the raw total is the final rotation.
FinalRotationRawTotal(rotation, extraSpins, targetAngle) ==
  TotalRotation(rotation, extraSpins, targetAngle)

\* Mutant: a full turn is added instead of the complement of rotation % 360.
FinalRotationFullTurn(rotation, extraSpins, targetAngle) ==
  AngAdd(TotalRotation(rotation, extraSpins, targetAngle), Turns(1))

\* Mutant: the rotation already accumulated is left out.
FinalRotationFromZero(rotation, extraSpins, targetAngle) ==
  AngAdd(TotalRotation(Zero, extraSpins, targetAngle),
         AngSub(Turns(1), Mod360(rotation)))

FinalRotation(rotation, extraSpins, targetAngle) ==
  AngAdd(TotalRotation(rotation, extraSpins, targetAngle),
         AngSub(Turns(1), Mod360(rotation)))

\* 4 + extraSpins * 0.5 seconds, in half seconds
DurationHalfSeconds(extraSpins) == 8 + extraSpins

NoCat == [isNull |-> TRUE, cat |-> Cat(<< >>, << >>, << >>)]
SomeCat(c) == [isNull |-> FALSE, cat |-> c]

NoFlight ==
  [active |-> FALSE, winnerIndex |-> 0, extraSpins |-> 0, duration |-> 0,
   startRotation |-> Zero, finalRotation |-> Zero, categories |-> << >>]

\* What Wheel.spin hands to controls.start(), with the closure it resumes in.
StartFlight(cats, rotation, winnerIndex, r) ==
  [active |-> TRUE,
   winnerIndex |-> winnerIndex,
   extraSpins |-> ExtraSpins(r),
   duration |-> DurationHalfSeconds(ExtraSpins(r)),
   startRotation |-> rotation,
   finalRotation |-> FinalRotation(rotation, ExtraSpins(r),
                                   TargetAngle(winnerIndex, Len(cats))),
   categories |-> cats]

\* Mutant: the guard looks at the category count only.
SpinRejectedCountOnly(spinning, cats, animating) == Len(cats) < 2

\* Mutant: the guard does not look at the category count.
SpinRejectedBusyOnly(spinning, cats, animating) == spinning \/ animating

\* The guard of Wheel.spin, on the props of the last render and the ref.
SpinRejected(spinning, cats, animating) ==
  spinning \/ Len(cats) < 2 \/ animating

\* The guard of handleSpin, on the values its closure captured.
HandleSpinReturns(spinning, catLen) == spinning \/ catLen < 2

-----------------------------------------------------------------------------
(* Helpers of the editor *)

IsSpace(c) == c \in {" ", "\t", "\n"}

RECURSIVE TrimStart(_)
TrimStart(s) ==
  IF s # << >> /\ IsSpace(Head(s)) THEN TrimStart(Tail(s)) ELSE s

RECURSIVE TrimEnd(_)
TrimEnd(s) ==
  IF s # << >> /\ IsSpace(s[Len(s)]) THEN TrimEnd(SubSeq(s, 1, Len(s) - 1))
  ELSE s

\* String.prototype.trim
\* Mutant: nothing is trimmed.
TrimNothing(s) == s

Trim(s) == TrimEnd(TrimStart(s))

Digits == <<"0", "1", "2", "3", "4", "5", "6", "7", "8", "9">>

\* Number.prototype.toString, for n >= 0
RECURSIVE ToStr(_)
ToStr(n) ==
  IF n < 10 THEN << Digits[n + 1] >>
  ELSE ToStr(n \div 10) \o << Digits[(n % 10) + 1] >>

\* Date.now() at the first page load
ClockStart == 1000

Range(seq) == { seq[i] : i \in 1..Len(seq) }

Colors(cats) == [i \in 1..Len(cats) |-> cats[i].color]
Ids(cats) == { cats[i].id : i \in 1..Len(cats) }

ColorPoolUnfiltered(usedColors) == WHEEL_COLORS

\* getRandomColor: the pool its result is drawn from
ColorPool(usedColors) ==
  LET availableColors ==
        SelectSeq(WHEEL_COLORS, LAMBDA c : c \notin Range(usedColors))
  IN IF Len(availableColors) > 0 THEN availableColors ELSE WHEEL_COLORS

\* The colour getRandomColor returns when Math.random() picks entry r of the
\* pool (r in 1..Len(pool))
getRandomColor(usedColors, r) == ColorPool(usedColors)[r]

-----------------------------------------------------------------------------
(* utils/colors.js: hexadecimal colours *)

UpperHexDigits ==
  <<"0", "1", "2", "3", "4", "5", "6", "7", "8", "9",
    "A", "B", "C", "D", "E", "F">>
\* the digits Number.prototype.toString(16) writes
HexDigits ==
  <<"0", "1", "2", "3", "4", "5", "6", "7", "8", "9",
    "a", "b", "c", "d", "e", "f">>

\* the value parseInt(_, 16) gives a digit, in either case
HexValue(ch) ==
  (CHOOSE i \in 1..16 : HexDigits[i] = ch \/ UpperHexDigits[i] = ch) - 1

\* parseInt(s, 16), s made of hexadecimal digits
RECURSIVE ParseHex(_)
ParseHex(s) ==
  IF s = << >> THEN 0
  ELSE 16 * ParseHex(SubSeq(s, 1, Len(s) - 1)) + HexValue(s[Len(s)])

\* n.toString(16), for n >= 0
RECURSIVE ToHex(_)
ToHex(n) ==
  IF n < 16 THEN << HexDigits[n + 1] >>
  ELSE ToHex(n \div 16) \o << HexDigits[(n % 16) + 1] >>

\* color.replace('#', ''): the first '#' is taken out
RemoveHash(color) ==
  IF \E i \in 1..Len(color) : color[i] = "#"
  THEN LET i == CHOOSE i \in 1..Len(color) :
                  color[i] = "#" /\ \A j \in 1..(i - 1) : color[j] # "#"
       IN SubSeq(color, 1, i - 1) \o SubSeq(color, i + 1, Len(color))
  ELSE color

\* The percents p of 0..100 at which 2.55 * p, exactly a half-integer, is
\* a double just below it: 2.55 * 50 is 127.49999999999999 and 2.55 * 90 is
\* 229.49999999999997 (2.55 * 10, * 30 and * 70 are exact).
RoundedDown == {50, 90}

\* Math.round(2.55 * percent), for an integer percent of 0..100
Amt(percent) ==
  ((255 * percent + 50) \div 100) - (IF percent \in RoundedDown THEN 1 ELSE 0)

Min(a, b) == IF a < b THEN a ELSE b
Max(a, b) == IF a > b THEN a ELSE b

\* `#${(0x1000000 + R * 0x10000 + G * 0x100 + B).toString(16).slice(1)}`
HexColor(R, G, B) ==
  <<"#">> \o Tail(ToHex(16777216 + R * 65536 + G * 256 + B))

lightenColorUnclamped(color, percent) ==
  LET num == ParseHex(RemoveHash(color))
      amt == Amt(percent)
  IN HexColor((num \div 65536) + amt, ((num \div 256) % 256) + amt,
              (num % 256) + amt)

lightenColor(color, percent) ==
  LET num == ParseHex(RemoveHash(color))
      amt == Amt(percent)
      R == Min(255, (num \div 65536) + amt)
      G == Min(255, ((num \div 256) % 256) + amt)
      B == Min(255, (num % 256) + amt)
  IN HexColor(R, G, B)

darkenColor(color, percent) ==
  LET num == ParseHex(RemoveHash(color))
      amt == Amt(percent)
      R == Max(0, (num \div 65536) - amt)
      G == Max(0, ((num \div 256) % 256) - amt)
      B == Max(0, (num % 256) - amt)
  IN HexColor(R, G, B)

DarkText == <<"#", "2", "D", "1", "B", "6", "9">>
LightText == <<"#", "F", "F", "F", "F", "F", "F">>

\* luminance > 0.5 for (0.299 * r + 0.587 * g + 0.114 * b) / 255 in double
\* arithmetic.  It is the comparison of the exact sum with 127.5, except
\* where the exact sum is 127.5: of these 114 colours the doubles give 0.5
\* or less for all but (218, 58, 248), which comes out above 0.5.
LuminanceAboveHalf(r, g, b) ==
  \/ 299 * r + 587 * g + 114 * b > 127500
  \/ << r, g, b >> = << 218, 58, 248 >>

getContrastTextColorAtLeast(bgColor) ==
  LET color == RemoveHash(bgColor)
      r == ParseHex(SubSeq(color, 1, 2))
      g == ParseHex(SubSeq(color, 3, 4))
      b == ParseHex(SubSeq(color, 5, 6))
  IN IF 299 * r + 587 * g + 114 * b >= 127500 THEN DarkText ELSE LightText

getContrastTextColor(bgColor) ==
  LET color == RemoveHash(bgColor)
      r == ParseHex(SubSeq(color, 1, 2))
      g == ParseHex(SubSeq(color, 3, 4))
      b == ParseHex(SubSeq(color, 5, 6))
  IN IF LuminanceAboveHalf(r, g, b) THEN DarkText ELSE LightText

-----------------------------------------------------------------------------
(* SettingsModal.jsx: the list operations of the editor *)

\* prev.filter(c => c.id !== id)
WithoutId(cats, id) == SelectSeq(cats, LAMBDA c : c.id # id)

\* prev.map(c => c.id === id ? { ...c, name } : c)
Renamed(cats, id, name) ==
  [i \in 1..Len(cats) |->
     IF cats[i].id = id THEN [cats[i] EXCEPT !.name = name] ELSE cats[i]]

\* prev.map(c => c.id === id ? { ...c, color } : c)
Recolored(cats, id, color) ==
  [i \in 1..Len(cats) |->
     IF cats[i].id = id THEN [cats[i] EXCEPT !.color = color] ELSE cats[i]]

-----------------------------------------------------------------------------
(* Inputs of the environment *)

\* The colours Math.random() is taken to draw from a pool: the two ends.
ColorDraws(pool) == { pool[1], pool[Len(pool)] }

NameInputs == { <<" ">>, <<" ">> \o DEFAULT_CATEGORIES[1].name \o <<" ">> }
TitleInputs == { << >>, <<"T">>, DEFAULT_TITLE }

\* Categories a previous session can have added, in the order added.
AddedCategory(k) ==
  Cat(ToStr(ClockStart - (MAX_CATEGORIES - k)), <<"C">> \o ToStr(k),
      WHEEL_COLORS[((k - 1) % Len(WHEEL_COLORS)) + 1])

\* A list of n categories a previous session can have saved.
SavedList(n) ==
  IF n <= Len(DEFAULT_CATEGORIES) THEN SubSeq(DEFAULT_CATEGORIES, 1, n)
  ELSE DEFAULT_CATEGORIES \o
       [k \in 1..(n - Len(DEFAULT_CATEGORIES)) |->
          AddedCategory(Len(DEFAULT_CATEGORIES) + k)]

\* Two categories added within one millisecond share their id.
SavedListTwins ==
  << DEFAULT_CATEGORIES[1],
     Cat(ToStr(ClockStart - 1), <<"A">>, WHEEL_COLORS[7]),
     Cat(ToStr(ClockStart - 1), <<"B">>, WHEEL_COLORS[8]) >>

\* Colours the palette utility is called with: the palette, white, black,
\* the text colours, greys on either side of luminance 0.5, and colours of
\* luminance exactly 0.5.
SampleColors ==
  Range(WHEEL_COLORS) \cup
  { <<"#", "F", "F", "F", "F", "F", "F">>, <<"#", "0", "0", "0", "0", "0", "0">>,
    <<"#", "2", "D", "1", "B", "6", "9">>, <<"#", "2", "d", "1", "b", "6", "9">>,
    <<"#", "8", "0", "8", "0", "8", "0">>, <<"#", "7", "f", "7", "f", "7", "f">>,
    <<"#", "0", "0", "C", "C", "4", "4">>, <<"#", "0", "1", "A", "D", "E", "1">>,
    <<"#", "D", "A", "3", "A", "F", "8">> }

SamplePercents == {0, 10, 15, 20, 50, 100}

\* Lists of used colours getRandomColor is called with: the colours of a
\* saved list of 0..20 categories, and lists with gaps and foreign colours.
UsedSamples ==
  { Colors(SavedList(n)) : n \in 0..MAX_CATEGORIES } \cup
  { << WHEEL_COLORS[2], WHEEL_COLORS[16], DarkText >>,
    Colors(SavedList(Len(WHEEL_COLORS))) \o << WHEEL_COLORS[1] >>,
    Tail(Colors(SavedList(Len(WHEEL_COLORS)))) }

CorruptText(key) ==
  IF key = CategoriesKey THEN << <<"[">>, <<"{">> >> ELSE << <<"\"">> >>

CategoryCells ==
  { NoItem, Item(<< >>), Item(CorruptText(CategoriesKey)),
    Item(JsonStringify(CategoriesKey, SavedList(2))),
    Item(JsonStringify(CategoriesKey, SavedListTwins)) }

TitleCells ==
  { NoItem, Item(CorruptText(TitleKey)), Item(JsonStringify(TitleKey, <<"T">>)) }

-----------------------------------------------------------------------------
(* History *)

Op(name, result) == [name |-> name, result |-> result]
IoNone == [read |-> "none", write |-> "none"]
NoIo == [k \in Keys |-> IoNone]

-----------------------------------------------------------------------------
(* Page load: App mounts, both hooks are created, the Wheel is created *)

\* The exceptions localStorage threw while the two hooks mounted.
Thrown(m) ==
  Cardinality({ k \in Keys : m[k].read = "throw" }) +
  Cardinality({ k \in Keys : m[k].write = "fail" })

\* Mutant: the rotation of the wheel outlives the page.
PageLoadKeepsRotation(cells, readThrows, writeThrows, op) ==
  LET m == [k \in Keys |-> MountStore(k, cells[k], readThrows[k], writeThrows[k])]
  IN /\ storage' = [k \in Keys |-> m[k].cell]
     /\ storedValue' = [k \in Keys |-> m[k].value]
     /\ lastWrittenJson' = [k \in Keys |-> m[k].last]
     /\ writeFailed' = [k \in Keys |-> m[k].write = "fail"]
     /\ faults + Thrown(m) <= MaxFaults
     /\ faults' = faults + Thrown(m)
     /\ io' = [k \in Keys |-> [read |-> m[k].read, write |-> m[k].write]]
     /\ isSpinning' = FALSE
     /\ winner' = NoCat
     /\ showSettings' = FALSE
     /\ showWinner' = FALSE
     /\ currentRotation' = currentRotation
     /\ isAnimating' = FALSE
     /\ flight' = NoFlight
     /\ timers' = << >>
     /\ started' = 0
     /\ ended' = 0
     /\ lastOp' = op
     /\ UNCHANGED paletteVars

PageLoad(cells, readThrows, writeThrows, op) ==
  LET m == [k \in Keys |-> MountStore(k, cells[k], readThrows[k], writeThrows[k])]
  IN /\ storage' = [k \in Keys |-> m[k].cell]
     /\ storedValue' = [k \in Keys |-> m[k].value]
     /\ lastWrittenJson' = [k \in Keys |-> m[k].last]
     /\ writeFailed' = [k \in Keys |-> m[k].write = "fail"]
     /\ faults + Thrown(m) <= MaxFaults
     /\ faults' = faults + Thrown(m)
     /\ io' = [k \in Keys |-> [read |-> m[k].read, write |-> m[k].write]]
     /\ isSpinning' = FALSE
     /\ winner' = NoCat
     /\ showSettings' = FALSE
     /\ showWinner' = FALSE
     /\ currentRotation' = Zero
     /\ isAnimating' = FALSE
     /\ flight' = NoFlight
     /\ timers' = << >>
     /\ started' = 0
     /\ ended' = 0
     /\ lastOp' = op
     /\ UNCHANGED paletteVars

FirstLoad(cells, readThrows, writeThrows) ==
  LET m == [k \in Keys |-> MountStore(k, cells[k], readThrows[k], writeThrows[k])]
  IN /\ storage = [k \in Keys |-> m[k].cell]
     /\ storedValue = [k \in Keys |-> m[k].value]
     /\ lastWrittenJson = [k \in Keys |-> m[k].last]
     /\ writeFailed = [k \in Keys |-> m[k].write = "fail"]
     /\ Thrown(m) <= MaxFaults
     /\ faults = Thrown(m)
     /\ io = [k \in Keys |-> [read |-> m[k].read, write |-> m[k].write]]
     /\ isSpinning = FALSE
     /\ winner = NoCat
     /\ showSettings = FALSE
     /\ showWinner = FALSE
     /\ currentRotation = Zero
     /\ isAnimating = FALSE
     /\ flight = NoFlight
     /\ timers = << >>
     /\ started = 0
     /\ ended = 0
     /\ lastOp = Op("mount", "done")
     /\ now = ClockStart
     /\ edits = 0
     /\ reloads = 0

\* The first page load, the palette utility not being called on its own.
Boot(cells, readThrows, writeThrows) ==
  /\ FirstLoad(cells, readThrows, writeThrows)
  /\ palette = [color |-> WHEEL_COLORS[1], percent |-> 0, usedColors |-> << >>]
  /\ calls = << >>

Flags == [Keys -> BOOLEAN]
Count(f) == Cardinality({ k \in Keys : f[k] })

\* The calls of getItem (rt) and setItem (wt) that may throw during a page
\* load, budget exceptions being left to throw.
ThrowChoices(budget) ==
  { p \in Flags \X Flags : Count(p[1]) + Count(p[2]) <= budget }

\* Whether one setItem may throw.
WriteChoices == IF faults < MaxFaults THEN BOOLEAN ELSE {FALSE}
CellsOf(c, t) == [k \in Keys |-> IF k = CategoriesKey THEN c ELSE t]

NoThrow == [k \in Keys |-> FALSE]

\* The first page load, on what an earlier session or another program left
\* in localStorage.
Init ==
  \E c \in CategoryCells, t \in TitleCells, p \in ThrowChoices(MaxFaults) :
    Boot(CellsOf(c, t), p[1], p[2])

\* The same, one of the two entries being absent.
InitStore ==
  \E c \in CategoryCells, t \in TitleCells, p \in ThrowChoices(MaxFaults) :
    /\ c = NoItem \/ t = NoItem
    /\ Boot(CellsOf(c, t), p[1], p[2])

\* The first page load on a short saved list, localStorage working.
InitApp ==
  \E l \in { SavedList(2), SavedListTwins } :
    Boot(CellsOf(Item(JsonStringify(CategoriesKey, l)), NoItem),
         NoThrow, NoThrow)

\* The first page load on a saved list of n categories, localStorage working.
InitWheel ==
  \E n \in 1..MAX_CATEGORIES :
    Boot(CellsOf(Item(JsonStringify(CategoriesKey, SavedList(n))), NoItem),
         NoThrow, NoThrow)

Reload ==
  /\ reloads < MaxReloads
  /\ \E p \in ThrowChoices(MaxFaults - faults) :
       PageLoad(storage, p[1], p[2], Op("reload", "done"))
  /\ reloads' = reloads + 1
  /\ UNCHANGED << now, edits >>

-----------------------------------------------------------------------------
(* The setter of useLocalStorage, with the re-render and the effect it     *)
(* causes.  changed: React saw a new state value (Object.is).              *)

SetValue(key, value, changed, writeThrows) ==
  LET w == IF changed
           THEN WriteEffect(key, value, lastWrittenJson[key], storage[key],
                            writeThrows)
           ELSE [cell |-> storage[key], last |-> lastWrittenJson[key],
                 write |-> "none"]
  IN /\ storedValue' = [storedValue EXCEPT ![key] = value]
     /\ storage' = [storage EXCEPT ![key] = w.cell]
     /\ lastWrittenJson' = [lastWrittenJson EXCEPT ![key] = w.last]
     /\ writeFailed' = [writeFailed EXCEPT ![key] = @ \/ w.write = "fail"]
     /\ w.write = "fail" => faults < MaxFaults
     /\ faults' = IF w.write = "fail" THEN faults + 1 ELSE faults
     /\ io' = [NoIo EXCEPT ![key] = [read |-> "none", write |-> w.write]]

NoStoreChange ==
  /\ UNCHANGED << storage, storedValue, lastWrittenJson, writeFailed, faults >>
  /\ io' = NoIo

-----------------------------------------------------------------------------
(* Wheel.spin and App's callbacks *)

\* Mutant: onSpinStart is not called.
WheelSpinNoStart(name) ==
  IF SpinRejected(isSpinning, categories, isAnimating)
  THEN /\ lastOp' = Op(name, "ignored")
       /\ UNCHANGED paletteVars
       /\ UNCHANGED << isSpinning, showWinner, isAnimating, flight, started >>
  ELSE \E winnerIndex \in 0..(Len(categories) - 1), r \in 0..2 :
         /\ ended < MaxSpins
         /\ isAnimating' = TRUE
         /\ flight' = StartFlight(categories, currentRotation, winnerIndex, r)
         /\ lastOp' = Op(name, "accepted")
         /\ UNCHANGED paletteVars
         /\ UNCHANGED << isSpinning, showWinner, started >>

\* Wheel.spin as the last render exposes it through the ref.
\* Accepted: onSpinStart, then controls.start() is pending.
WheelSpin(name) ==
  IF SpinRejected(isSpinning, categories, isAnimating)
  THEN /\ lastOp' = Op(name, "ignored")
       /\ UNCHANGED paletteVars
       /\ UNCHANGED << isSpinning, showWinner, isAnimating, flight, started >>
  ELSE \E winnerIndex \in 0..(Len(categories) - 1), r \in 0..2 :
         /\ ended < MaxSpins
         /\ isAnimating' = TRUE
         /\ isSpinning' = TRUE
         /\ showWinner' = FALSE
         /\ flight' = StartFlight(categories, currentRotation, winnerIndex, r)
         /\ started' = started + 1
         /\ lastOp' = Op(name, "accepted")
         /\ UNCHANGED paletteVars

\* handleSpin as a closure over (spinning, catLen)
HandleSpin(spinning, catLen, name) ==
  IF HandleSpinReturns(spinning, catLen)
  THEN /\ lastOp' = Op(name, "ignored")
       /\ UNCHANGED paletteVars
       /\ UNCHANGED << isSpinning, showWinner, isAnimating, flight, started >>
  ELSE WheelSpin(name)

\* A click on the wheel: handleSpin of the last render.
Click ==
  /\ ~showSettings /\ ~showWinner
  /\ HandleSpin(isSpinning, Len(categories), "handleSpin")
  /\ NoStoreChange
  /\ UNCHANGED << winner, showSettings, currentRotation, timers, now, ended,
                  edits, reloads >>

\* 'Rejouer' in the winner dialog: handleSpinAgain.
SpinAgain ==
  /\ showWinner
  /\ Len(timers) < MaxTimers
  /\ showWinner' = FALSE
  /\ timers' = Append(timers, [isSpinning |-> isSpinning,
                               catLen |-> Len(categories)])
  /\ lastOp' = Op("handleSpinAgain", "done")
  /\ UNCHANGED paletteVars
  /\ NoStoreChange
  /\ UNCHANGED << isSpinning, winner, showSettings, currentRotation,
                  isAnimating, flight, now, started, ended, edits, reloads >>

\* The 300 ms timer fires: the handleSpin captured by handleSpinAgain.
TimerFire ==
  /\ timers # << >>
  /\ HandleSpin(Head(timers).isSpinning, Head(timers).catLen, "timer")
  /\ timers' = Tail(timers)
  /\ NoStoreChange
  /\ UNCHANGED << winner, showSettings, currentRotation, now, ended, edits,
                  reloads >>

\* Mutant: the finally block is missing, isAnimating stays set.
AnimationCompleteNoFinally ==
  /\ flight.active
  /\ currentRotation' = flight.finalRotation
  /\ isSpinning' = FALSE
  /\ winner' = SomeCat(flight.categories[flight.winnerIndex + 1])
  /\ showWinner' = TRUE
  /\ flight' = NoFlight
  /\ ended' = ended + 1
  /\ lastOp' = Op("animationComplete", "done")
  /\ UNCHANGED paletteVars
  /\ NoStoreChange
  /\ UNCHANGED << isAnimating, showSettings, timers, now, started, edits,
                  reloads >>

\* Mutant: handleSpinEnd leaves isSpinning set.
AnimationCompleteStillSpinning ==
  /\ flight.active
  /\ currentRotation' = flight.finalRotation
  /\ winner' = SomeCat(flight.categories[flight.winnerIndex + 1])
  /\ showWinner' = TRUE
  /\ isAnimating' = FALSE
  /\ flight' = NoFlight
  /\ ended' = ended + 1
  /\ lastOp' = Op("animationComplete", "done")
  /\ UNCHANGED paletteVars
  /\ NoStoreChange
  /\ UNCHANGED << isSpinning, showSettings, timers, now, started, edits,
                  reloads >>

\* controls.start() resolves: the rest of Wheel.spin, then handleSpinEnd.
AnimationComplete ==
  /\ flight.active
  /\ currentRotation' = flight.finalRotation
  /\ isSpinning' = FALSE
  /\ winner' = SomeCat(flight.categories[flight.winnerIndex + 1])
  /\ showWinner' = TRUE
  /\ isAnimating' = FALSE
  /\ flight' = NoFlight
  /\ ended' = ended + 1
  /\ lastOp' = Op("animationComplete", "done")
  /\ UNCHANGED paletteVars
  /\ NoStoreChange
  /\ UNCHANGED << showSettings, timers, now, started, edits, reloads >>

\* The promise of controls.start() rejects: the catch and the finally of
\* Wheel.spin.  onSpinEnd is not called.
AnimationInterrupted ==
  /\ flight.active
  /\ isAnimating' = FALSE
  /\ flight' = NoFlight
  /\ lastOp' = Op("animationInterrupted", "done")
  /\ UNCHANGED paletteVars
  /\ NoStoreChange
  /\ UNCHANGED << currentRotation, appVars, timers, now, started, ended,
                  edits, reloads >>

OpenSettings ==
  /\ ~showSettings
  /\ showSettings' = TRUE
  /\ lastOp' = Op("openSettings", "done")
  /\ UNCHANGED paletteVars
  /\ NoStoreChange
  /\ UNCHANGED << isSpinning, winner, showWinner, wheelVars, timers, now,
                  started, ended, edits, reloads >>

CloseSettings ==
  /\ showSettings
  /\ showSettings' = FALSE
  /\ lastOp' = Op("closeSettings", "done")
  /\ UNCHANGED paletteVars
  /\ NoStoreChange
  /\ UNCHANGED << isSpinning, winner, showWinner, wheelVars, timers, now,
                  started, ended, edits, reloads >>

CloseWinner ==
  /\ showWinner
  /\ showWinner' = FALSE
  /\ lastOp' = Op("closeWinner", "done")
  /\ UNCHANGED paletteVars
  /\ NoStoreChange
  /\ UNCHANGED << isSpinning, winner, showSettings, wheelVars, timers, now,
                  started, ended, edits, reloads >>

Tick ==
  /\ now < ClockStart + MaxClock
  /\ now' = now + 1
  /\ lastOp' = Op("tick", "done")
  /\ UNCHANGED paletteVars
  /\ NoStoreChange
  /\ UNCHANGED << appVars, wheelVars, timers, started, ended, edits, reloads >>

-----------------------------------------------------------------------------
(* SettingsModal *)

EditorFrame ==
  UNCHANGED << appVars, wheelVars, timers, now, started, ended, reloads >>

\* handleAddCategory, newCategory being the text of the input
AddCategory ==
  /\ showSettings
  /\ edits < MaxEdits
  /\ edits' = edits + 1
  /\ EditorFrame
  /\ \E newCategory \in NameInputs :
       IF Trim(newCategory) = << >> \/ Len(categories) >= MAX_CATEGORIES
       THEN /\ lastOp' = Op("handleAddCategory", "rejected")
            /\ UNCHANGED paletteVars
            /\ NoStoreChange
       ELSE \E newColor \in ColorDraws(ColorPool(Colors(categories))),
                 wt \in WriteChoices :
              /\ SetValue(CategoriesKey,
                          Append(categories,
                                 Cat(ToStr(now), Trim(newCategory), newColor)),
                          TRUE, wt)
              /\ lastOp' = Op("handleAddCategory", "done")
              /\ UNCHANGED paletteVars

\* handleDeleteCategory(id), id being the id of a listed category.  Deletes
\* are not counted: the list they shorten bounds them, and they are tried on
\* lists of at most MaxShrink categories.
DeleteCategory ==
  /\ showSettings
  /\ Len(categories) <= MaxShrink
  /\ UNCHANGED edits
  /\ EditorFrame
  /\ \E id \in Ids(categories) :
       IF Len(categories) <= MIN_CATEGORIES
       THEN /\ lastOp' = Op("handleDeleteCategory", "rejected")
            /\ UNCHANGED paletteVars
            /\ NoStoreChange
       ELSE \E wt \in WriteChoices :
              /\ SetValue(CategoriesKey, WithoutId(categories, id), TRUE, wt)
              /\ lastOp' = Op("handleDeleteCategory", "done")
              /\ UNCHANGED paletteVars

\* saveEdit, editingId being the id of a listed category
SaveEdit ==
  /\ showSettings
  /\ edits < MaxEdits
  /\ edits' = edits + 1
  /\ EditorFrame
  /\ \E editingId \in Ids(categories), editingValue \in NameInputs :
       IF Trim(editingValue) = << >>
       THEN /\ lastOp' = Op("saveEdit", "rejected")
            /\ UNCHANGED paletteVars
            /\ NoStoreChange
       ELSE \E wt \in WriteChoices :
              /\ SetValue(CategoriesKey,
                          Renamed(categories, editingId, Trim(editingValue)),
                          TRUE, wt)
              /\ lastOp' = Op("saveEdit", "done")
              /\ UNCHANGED paletteVars

\* regenerateColor(id)
RegenerateColor ==
  /\ showSettings
  /\ edits < MaxEdits
  /\ edits' = edits + 1
  /\ EditorFrame
  /\ \E id \in Ids(categories) :
       LET pool == ColorPool(Colors(WithoutId(categories, id)))
       IN \E newColor \in ColorDraws(pool), wt \in WriteChoices :
            /\ SetValue(CategoriesKey, Recolored(categories, id, newColor),
                        TRUE, wt)
            /\ lastOp' = Op("regenerateColor", "done")
            /\ UNCHANGED paletteVars

\* handleTitleChange, value being the new text of the input
TitleChange ==
  /\ showSettings
  /\ edits < MaxEdits
  /\ edits' = edits + 1
  /\ EditorFrame
  /\ \E value \in TitleInputs, wt \in WriteChoices :
       /\ Len(value) <= MAX_TITLE_LENGTH
       /\ value # title
       /\ SetValue(TitleKey, value, TRUE, wt)
       /\ lastOp' = Op("handleTitleChange", "done")
       /\ UNCHANGED paletteVars

-----------------------------------------------------------------------------

-----------------------------------------------------------------------------
(* Calls of the palette utility *)

programVars ==
  << storage, storedValue, lastWrittenJson, isSpinning, winner, showSettings,
     showWinner, currentRotation, isAnimating, flight, timers, now, started,
     ended, edits, reloads, writeFailed, faults, lastOp, io >>

Call(fn, result) ==
  [fn |-> fn, color |-> palette.color, percent |-> palette.percent,
   usedColors |-> palette.usedColors, result |-> result]

\* lightenColor(color, percent); the result is the colour of the next call
CallLightenColor ==
  /\ Len(calls) < MaxCalls
  /\ LET result == lightenColor(palette.color, palette.percent)
     IN /\ calls' = Append(calls, Call("lightenColor", result))
        /\ palette' = [palette EXCEPT !.color = result]
  /\ UNCHANGED programVars

\* darkenColor(color, percent); the result is the colour of the next call
CallDarkenColor ==
  /\ Len(calls) < MaxCalls
  /\ LET result == darkenColor(palette.color, palette.percent)
     IN /\ calls' = Append(calls, Call("darkenColor", result))
        /\ palette' = [palette EXCEPT !.color = result]
  /\ UNCHANGED programVars

CallContrastTextColor ==
  /\ Len(calls) < MaxCalls
  /\ calls' = Append(calls, Call("getContrastTextColor",
                                 getContrastTextColor(palette.color)))
  /\ UNCHANGED << palette, programVars >>

\* getRandomColor(usedColors), Math.random() picking entry r of the pool; the
\* colour drawn is in use from then on, as after handleAddCategory
CallRandomColor ==
  /\ Len(calls) < MaxCalls
  /\ \E r \in 1..Len(ColorPool(palette.usedColors)) :
       LET result == getRandomColor(palette.usedColors, r)
       IN /\ calls' = Append(calls, Call("getRandomColor", result))
          /\ palette' = [palette EXCEPT !.usedColors = Append(@, result)]
  /\ UNCHANGED programVars

Next ==
  \/ Click
  \/ SpinAgain
  \/ TimerFire
  \/ AnimationComplete
  \/ OpenSettings
  \/ CloseSettings
  \/ CloseWinner
  \/ Tick
  \/ AddCategory
  \/ DeleteCategory
  \/ SaveEdit
  \/ RegenerateColor
  \/ TitleChange
  \/ Reload
  \/ AnimationInterrupted
  \/ CallLightenColor
  \/ CallDarkenColor
  \/ CallContrastTextColor
  \/ CallRandomColor

Spec == Init /\ [][Next]_vars

NextWheel ==
  \/ Click
  \/ AnimationComplete
  \/ CloseWinner

SpecWheel == InitWheel /\ [][NextWheel]_vars

NextStore ==
  \/ OpenSettings
  \/ TitleChange
  \/ SaveEdit
  \/ Reload

SpecStore == InitStore /\ [][NextStore]_vars

\* The animation has a fixed duration and always completes.
SpecWheelFair == SpecWheel /\ WF_vars(AnimationComplete)

NextApp ==
  \/ Click
  \/ SpinAgain
  \/ TimerFire
  \/ AnimationComplete
  \/ CloseWinner
  \/ OpenSettings
  \/ CloseSettings
  \/ DeleteCategory

SpecApp == InitApp /\ [][NextApp]_vars

\* The wheel, the animation either completing or being interrupted.
NextInterrupt ==
  \/ Click
  \/ AnimationComplete
  \/ AnimationInterrupted
  \/ CloseWinner

SpecInterrupt == InitApp /\ [][NextInterrupt]_vars

\* The first page load on a saved list of the least or the greatest length,
\* localStorage working.
InitLimits ==
  \E n \in {MIN_CATEGORIES, MAX_CATEGORIES} :
    Boot(CellsOf(Item(JsonStringify(CategoriesKey, SavedList(n))), NoItem),
         NoThrow, NoThrow)

NextLimits ==
  \/ OpenSettings
  \/ AddCategory
  \/ DeleteCategory
  \/ SaveEdit

SpecLimits == InitLimits /\ [][NextLimits]_vars

\* The first page load of a browser that never ran the application, the one
\* exception localStorage throws being thrown by the read of the title.
InitEditor ==
  Boot(CellsOf(NoItem, NoItem), [k \in Keys |-> k = TitleKey], NoThrow)

NextEditor ==
  \/ OpenSettings
  \/ Tick
  \/ AddCategory
  \/ DeleteCategory
  \/ SaveEdit
  \/ RegenerateColor

SpecEditor == InitEditor /\ [][NextEditor]_vars

\* The wheel, its interruption, the two dialogs and deletions.
NextDialogs ==
  \/ Click
  \/ SpinAgain
  \/ TimerFire
  \/ AnimationComplete
  \/ AnimationInterrupted
  \/ CloseWinner
  \/ OpenSettings
  \/ CloseSettings
  \/ DeleteCategory

SpecDialogs == InitApp /\ [][NextDialogs]_vars

\* Spins, title changes and page reloads.
NextRestart ==
  \/ Click
  \/ AnimationComplete
  \/ AnimationInterrupted
  \/ CloseWinner
  \/ OpenSettings
  \/ CloseSettings
  \/ TitleChange
  \/ Reload

SpecRestart == InitApp /\ [][NextRestart]_vars

\* The colour helpers alone, called on sample colours and percents.
InitPalette ==
  /\ FirstLoad(CellsOf(NoItem, NoItem), NoThrow, NoThrow)
  /\ palette \in [color : SampleColors, percent : SamplePercents,
                  usedColors : { << >> }]
  /\ calls = << >>

NextPalette ==
  \/ CallLightenColor
  \/ CallDarkenColor
  \/ CallContrastTextColor

SpecPalette == InitPalette /\ [][NextPalette]_vars

\* getRandomColor alone, called on sample lists of used colours.
InitRandomColor ==
  /\ FirstLoad(CellsOf(NoItem, NoItem), NoThrow, NoThrow)
  /\ palette \in [color : { WHEEL_COLORS[1] }, percent : { 0 },
                  usedColors : UsedSamples]
  /\ calls = << >>

NextRandomColor == CallRandomColor

SpecRandomColor == InitRandomColor /\ [][NextRandomColor]_vars

-----------------------------------------------------------------------------
(* Properties *)

Idle == ~isSpinning /\ ~isAnimating /\ ~flight.active

SpinRequest(op) == op.name \in {"handleSpin", "timer"}

\* C1: for every category count n in 2..20 (SpecWheelFair starts on each),
\* a spin accepted in Idle ends: the step that notifies 'spin ended' is the
\* only one for that spin, leaves the engine Idle and reports the category
\* at the index drawn, an index in [0, n) of the list the spin started with;
\* and, the animation completing, every accepted spin reaches that step.
C1_SpinEndsIdleWithWinner ==
  /\ [][ended' # ended =>
          /\ ended' = ended + 1
          /\ ended' = started'
          /\ Idle'
          /\ Len(flight.categories) \in 2..MAX_CATEGORIES
          /\ flight.winnerIndex \in 0..(Len(flight.categories) - 1)
          /\ winner' = SomeCat(flight.categories[flight.winnerIndex + 1])]_vars
  /\ (started = ended + 1) ~> (started = ended /\ Idle /\ ~winner.isNull)

C1_Witness ==
  /\ lastOp = Op("animationComplete", "done")
  /\ Len(categories) = MAX_CATEGORIES
  /\ winner = SomeCat(categories[MAX_CATEGORIES])
  /\ ended = 2
  /\ Idle

\* The position in cats of the category c, counted from 0.
IndexOf(c, cats) == (CHOOSE j \in 1..Len(cats) : cats[j] = c) - 1

\* C2: after every completed spin, the first and the later ones, the
\* rotation of the wheel is congruent modulo 360 to
\* 360 - (winnerIndex * (360/n) + (360/n)/2): the centre of the reported
\* winner's segment is under the pointer.
C2_WinnerCentreUnderPointer ==
  ~winner.isNull =>
    LET n == Len(categories)
        i == IndexOf(winner.cat, categories)
        half == UnitsPerTurn \div (2 * n)
    IN /\ ended > 0
       /\ currentRotation.units =
            (UnitsPerTurn - (2 * i + 1) * half) % UnitsPerTurn

C2_Witness ==
  /\ ended = 2
  /\ lastOp = Op("animationComplete", "done")
  /\ Len(categories) = 7
  /\ winner = SomeCat(categories[3])
  /\ currentRotation.turns > 12

\* C3: while a spin is in flight every further spin request, a click on
\* the wheel or the timer of 'spin again', is ignored: it starts no
\* animation, notifies nothing, is not queued, and no second 'spin started'
\* comes before the pending 'spin ended'.
C3_RequestsIgnoredInFlight ==
  [][((isSpinning \/ isAnimating) /\ SpinRequest(lastOp')) =>
       /\ lastOp'.result = "ignored"
       /\ UNCHANGED << flight, started, ended, isSpinning, isAnimating,
                       currentRotation, winner, showWinner >>
       /\ Len(timers') <= Len(timers)
       /\ started' = ended' + 1]_vars

C3_Witness ==
  /\ lastOp = Op("timer", "ignored")
  /\ flight.active
  /\ started = 2
  /\ timers = << >>

\* C4: isSpinning is true exactly between 'spin started' and the matching
\* 'spin ended': the notifications alternate, the flag is set as soon as a
\* spin is accepted, stays set while the animation runs, and is clear once
\* the end has been notified with a winner of the category list.
C4_SpinningBetweenStartAndEnd ==
  /\ started \in {ended, ended + 1}
  /\ isSpinning <=> (started = ended + 1)
  /\ isSpinning <=> flight.active
  /\ lastOp.result = "accepted" => isSpinning
  /\ lastOp.name = "animationComplete" =>
       /\ ~isSpinning
       /\ ~winner.isNull
       /\ winner.cat \in Range(categories)

C4_Witness ==
  /\ categories = DEFAULT_CATEGORIES
  /\ lastOp = Op("animationComplete", "done")
  /\ ~isSpinning
  /\ winner = SomeCat(DEFAULT_CATEGORIES[6])
  /\ started = 1 /\ ended = 1

\* C5: a completed spin leaves currentRotation strictly greater than it
\* was; nothing else changes it: it never decreases and is never reset.
C5_RotationStrictlyIncreases ==
  [][IF ended' = ended + 1
     THEN AngLess(currentRotation, currentRotation')
     ELSE currentRotation' = currentRotation]_vars

C5_Witness ==
  /\ ended = 2
  /\ ~flight.active
  /\ AngLess(Turns(2 * 6), currentRotation)

\* C6: a spin request while fewer than 2 categories exist does nothing: no
\* notification, isSpinning keeps its value (false unless a spin accepted
\* earlier is still running), currentRotation is unchanged.
C6_SpinNoOpBelowTwoCategories ==
  [][(Len(categories) < 2 /\ SpinRequest(lastOp')) =>
       /\ lastOp'.result = "ignored"
       /\ UNCHANGED << started, ended, isSpinning, isAnimating, flight,
                       currentRotation, winner, showWinner, storedValue,
                       storage >>]_vars

C6_Witness ==
  /\ lastOp = Op("timer", "ignored")
  /\ Len(categories) < 2
  /\ Idle
  /\ started = 1 /\ ended = 1

PageLoaded == lastOp.name \in {"mount", "reload"}

Setters == {"handleAddCategory", "handleDeleteCategory", "saveEdit",
            "regenerateColor", "handleTitleChange"}

\* op called the setter of a store.
IsSet(op) == op.name \in Setters /\ op.result = "done"

\* This step is the second of two calls in a row that set the value of k
\* to the same value.
SecondSetOfSameValue(k) ==
  /\ IsSet(lastOp) /\ io[k].write # "none"
  /\ IsSet(lastOp') /\ io'[k].write # "none"
  /\ storedValue'[k] = storedValue[k]

\* C7: once the creation of the store for a key has settled (setItem not
\* throwing): a parseable entry has become the in-memory value; otherwise
\* the entry of the key holds the serialized initial value.
C7_StorageSeededOnCreation ==
  \A k \in Keys :
    (PageLoaded /\ io[k].write # "fail") =>
      IF io[k].read = "ok"
      THEN /\ storage[k].present
           /\ JsonParse(k, storage[k].text) = [ok |-> TRUE, value |-> storedValue[k]]
      ELSE storage[k] = Item(JsonStringify(k, InitialValue(k)))

C10_FallbackToInitialValue ==
  \A k \in Keys :
    (PageLoaded /\ io[k].read \in {"missing", "corrupt", "throw"}) =>
      /\ storedValue[k] = InitialValue(k)
      /\ k = CategoriesKey =>
           /\ Len(categories) = 6
           /\ categories = DEFAULT_CATEGORIES
      /\ k = TitleKey => title = DEFAULT_TITLE

C10_Witness ==
  /\ lastOp = Op("reload", "done")
  /\ io[CategoriesKey].read = "throw"
  /\ io[TitleKey].read = "missing"
  /\ edits > 0
  /\ categories = DEFAULT_CATEGORIES
  /\ title = DEFAULT_TITLE

\* The value of k in memory after this step is one the handler of the step
\* computes from the value before it.
NewlySet(k) ==
  \/ /\ lastOp'.name = "handleTitleChange"
     /\ k = TitleKey
     /\ title' \in TitleInputs \ {title}
  \/ /\ lastOp'.name = "saveEdit"
     /\ k = CategoriesKey
     /\ \E id \in Ids(categories), n \in NameInputs :
          categories' = Renamed(categories, id, Trim(n))
  \/ /\ lastOp'.name = "handleDeleteCategory"
     /\ k = CategoriesKey
     /\ \E id \in Ids(categories) : categories' = WithoutId(categories, id)

IdSeq(cats) == [i \in 1..Len(cats) |-> cats[i].id]

\* a is b with some of its elements left out, the others in b's order.
RECURSIVE IsSubseq(_, _)
IsSubseq(a, b) ==
  IF a = << >> THEN TRUE
  ELSE IF b = << >> THEN FALSE
  ELSE IF Head(a) = Head(b) THEN IsSubseq(Tail(a), Tail(b))
  ELSE IsSubseq(a, Tail(b))

\* Every step keeps the categories it keeps in the order they had, and puts
\* a new category last.
OrderKept ==
  [][\/ IsSubseq(IdSeq(categories'), IdSeq(categories))
     \/ /\ Len(categories') = Len(categories) + 1
        /\ SubSeq(categories', 1, Len(categories)) = categories]_vars

\* C12: in every state the editor reaches from the six default categories
\* the number of categories is in [2,20], and the categories that survive a
\* step keep their insertion order.
C12_CountInRangeOrderKept ==
  /\ [](Len(categories) \in MIN_CATEGORIES..MAX_CATEGORIES)
  /\ OrderKept

\* C13: the ids of the listed categories are pairwise distinct, and the id
\* given to a new category is the id of no category listed before it,
\* whether or not the clock advanced between two adds.
C13_IdsDistinctNeverReused ==
  /\ [](\A i, j \in 1..Len(categories) :
          i # j => categories[i].id # categories[j].id)
  /\ [][Len(categories') = Len(categories) + 1 =>
          categories'[Len(categories')].id \notin Ids(categories)]_vars

\* C14: after any sequence of title edits the title, in memory and as
\* stored, has between 1 and 50 characters.
C14_TitleLengthInRange ==
  /\ Len(title) \in 1..MAX_TITLE_LENGTH
  /\ LET stored == JsonParse(TitleKey, storage[TitleKey].text)
     IN (storage[TitleKey].present /\ stored.ok) =>
          Len(stored.value) \in 1..MAX_TITLE_LENGTH

\* C16: an interruption of the animation returns the engine to Idle as a
\* completion does: after it isSpinning is false, and the next spin request
\* is accepted.
C16_InterruptionReturnsToIdle ==
  /\ [](lastOp.name = "animationInterrupted" => Idle)
  /\ [][(lastOp.name = "animationInterrupted" /\ SpinRequest(lastOp')) =>
          lastOp'.result = "accepted"]_vars

\* What the spin in flight computed before the complement was added.
RawTotal ==
  TotalRotation(flight.startRotation, flight.extraSpins,
                TargetAngle(flight.winnerIndex, Len(flight.categories)))

\* C17: the final rotation of a spin is rawTotal plus 360 - (currentRotation
\* mod 360): more than 0 and at most 360 degrees, a whole turn exactly when
\* currentRotation is a multiple of 360; the final rotation exceeds
\* currentRotation and is congruent to targetAngle modulo 360.
C17_FinalIsRawTotalPlusComplement ==
  flight.active =>
    LET added == AngSub(flight.finalRotation, RawTotal)
    IN /\ ~AngLess(flight.finalRotation, RawTotal)
       /\ added = AngSub(Turns(1), Mod360(flight.startRotation))
       /\ AngLess(Zero, added) /\ ~AngLess(Turns(1), added)
       /\ (Mod360(added) = Zero) <=> (Mod360(flight.startRotation) = Zero)
       /\ AngLess(flight.startRotation, flight.finalRotation)
       /\ Congruent360(flight.finalRotation,
                       TargetAngle(flight.winnerIndex, Len(flight.categories)))

C17_Witness ==
  /\ flight.active
  /\ started = 2
  /\ Mod360(flight.startRotation) # Zero
  /\ Mod360(AngSub(flight.finalRotation, RawTotal)) # Zero
  /\ Len(flight.categories) = 6

\* C17 as the claim words it: the final rotation is rawTotal plus a whole
\* multiple of 360 degrees.
C17_FinalMinusRawTotalDivisible ==
  flight.active =>
    /\ ~AngLess(flight.finalRotation, RawTotal)
    /\ Mod360(AngSub(flight.finalRotation, RawTotal)) = Zero

\* d degrees, d a whole number.
Deg(d) == Norm(0, d * (UnitsPerTurn \div 360))

\* C18: for the n in 2..20 and the i in 0..n-1 of every spin,
\* segmentCenter = i*(360/n) + (360/n)/2 and targetAngle =
\* (360 - segmentCenter) mod 360, strictly between 0 and 360, the angle the
\* wheel is sent to; n = 6, i = 0 gives 30 and 330, n = 4, i = 2 gives 225
\* and 135.
C18_SegmentCenterAndTargetAngle ==
  flight.active =>
    LET n == Len(flight.categories)
        i == flight.winnerIndex
        c == SegmentCenter(i, n)
        t == TargetAngle(i, n)
    IN /\ n \in MIN_CATEGORIES..MAX_CATEGORIES /\ i \in 0..(n - 1)
       /\ UnitsPerTurn % (2 * n) = 0
       /\ c = Norm(0, (2 * i + 1) * (UnitsPerTurn \div (2 * n)))
       /\ t = Norm(0, (UnitsPerTurn - c.units) % UnitsPerTurn)
       /\ AngLess(Zero, t) /\ AngLess(t, Turns(1))
       /\ Mod360(flight.finalRotation) = t
       /\ (n = 6 /\ i = 0) => (c = Deg(30) /\ t = Deg(330))
       /\ (n = 4 /\ i = 2) => (c = Deg(225) /\ t = Deg(135))

C18_Witness ==
  /\ flight.active
  /\ Len(flight.categories) = 4
  /\ flight.winnerIndex = 2
  /\ TargetAngle(flight.winnerIndex, Len(flight.categories)) = Deg(135)
  /\ Congruent360(flight.finalRotation, Deg(135))
  /\ started = 2

NotBlank(name) == \E j \in 1..Len(name) : ~IsSpace(name[j])

CategoriesUntouched ==
  /\ categories' = categories
  /\ storage' = storage
  /\ lastWrittenJson' = lastWrittenJson

\* C20: a rejected editor operation leaves the category list, in memory and
\* in storage, as it was: a delete with exactly 2 categories and an add with
\* 20 categories are rejected, and so is an add or a rename with a blank
\* name, so that no category with a blank name is ever listed.
C20_RejectedEditsChangeNothing ==
  /\ [](\A i \in 1..Len(categories) : NotBlank(categories[i].name))
  /\ [][/\ lastOp'.result = "rejected" => CategoriesUntouched
        /\ (lastOp'.name = "handleDeleteCategory"
            /\ Len(categories) = MIN_CATEGORIES) =>
             (lastOp'.result = "rejected" /\ CategoriesUntouched)
        /\ (lastOp'.name = "handleAddCategory"
            /\ Len(categories) = MAX_CATEGORIES) =>
             (lastOp'.result = "rejected" /\ CategoriesUntouched)]_vars

C20_Witness ==
  /\ lastOp = Op("handleAddCategory", "rejected")
  /\ Len(categories) = MAX_CATEGORIES
  /\ categories[MAX_CATEGORIES].name = DEFAULT_CATEGORIES[1].name
  /\ edits = 2

-----------------------------------------------------------------------------
(* getRandomColor *)

CallsOf(fn) == { i \in 1..Len(calls) : calls[i].fn = fn }

Palette == Range(WHEEL_COLORS)

\* C21: every colour getRandomColor returns is one of the 16 palette colours,
\* and it is not among usedColors whenever some palette colour is not among
\* them; usedColors being the colours of the categories (handleAddCategory),
\* the colour of an added category then differs from every existing one.
C21_RandomColorInPaletteAvoidsUsed ==
  \A i \in CallsOf("getRandomColor") :
    /\ Cardinality(Palette) = 16
    /\ calls[i].result \in Palette
    /\ (Palette \ Range(calls[i].usedColors) # {}) =>
         calls[i].result \notin Range(calls[i].usedColors)

\* one palette colour is unused, and it is the one drawn
C21_Witness ==
  \E i \in CallsOf("getRandomColor") :
    /\ Palette \ Range(calls[i].usedColors) = { WHEEL_COLORS[16] }
    /\ calls[i].result = WHEEL_COLORS[16]

-----------------------------------------------------------------------------
(* getContrastTextColor *)

\* the channels of a colour '#rrggbb'
Rgb(color) ==
  << ParseHex(SubSeq(color, 2, 3)), ParseHex(SubSeq(color, 4, 5)),
     ParseHex(SubSeq(color, 6, 7)) >>

\* 1000 * 255 * luminance, in exact arithmetic
Luminance(color) ==
  299 * Rgb(color)[1] + 587 * Rgb(color)[2] + 114 * Rgb(color)[3]

HalfLuminance == (1000 * 255) \div 2

White == <<"#", "F", "F", "F", "F", "F", "F">>
Black == <<"#", "0", "0", "0", "0", "0", "0">>

\* the one colour of exact luminance 0.5 whose luminance the doubles put
\* above 0.5
AboveInDoubles == <<"#", "D", "A", "3", "A", "F", "8">>

\* C22: getContrastTextColor returns the dark text colour for '#FFFFFF' and
\* for every background of luminance above 0.5, the light text colour for
\* '#000000' and for every background of luminance below 0.5, and the LIGHT
\* text colour for a background whose luminance is exactly 0.5 (the
\* comparison is > 0.5), save the one such colour that double arithmetic
\* puts above 0.5.
C22_ContrastLightAtHalfLuminance ==
  \A i \in CallsOf("getContrastTextColor") :
    LET c == calls[i].color
        out == calls[i].result
    IN /\ c = White => out = DarkText
       /\ c = Black => out = LightText
       /\ Luminance(c) > HalfLuminance => out = DarkText
       /\ Luminance(c) < HalfLuminance => out = LightText
       /\ (Luminance(c) = HalfLuminance /\ Rgb(c) # Rgb(AboveInDoubles)) =>
            out = LightText
       /\ Rgb(c) = Rgb(AboveInDoubles) => out = DarkText

\* '#00CC44', of luminance exactly 0.5, got the light text colour
C22_Witness ==
  \E i \in CallsOf("getContrastTextColor") :
    /\ Rgb(calls[i].color) = << 0, 204, 68 >>
    /\ Luminance(calls[i].color) = HalfLuminance
    /\ calls[i].result = LightText

\* C22 as stated: dark text for white, light text for black, dark text at
\* luminance exactly 0.5.
C22_ContrastDarkAtHalfLuminance ==
  \A i \in CallsOf("getContrastTextColor") :
    LET c == calls[i].color
        out == calls[i].result
    IN /\ c = White => out = DarkText
       /\ c = Black => out = LightText
       /\ Luminance(c) = HalfLuminance => out = DarkText

-----------------------------------------------------------------------------
(* lightenColor, darkenColor *)

Clamp(x) == Max(0, Min(255, x))

\* a call moved every channel by d, clamped to [0,255]
MovedBy(call, d) ==
  /\ Len(call.result) = 7
  /\ \A k \in 1..3 : Rgb(call.result)[k] = Clamp(Rgb(call.color)[k] + d)

\* no channel of the call's colour leaves [0,255] when moved by d
Unclamped(call, d) ==
  \A k \in 1..3 : Rgb(call.color)[k] + d \in 0..255

\* round(2.55 * percent) in exact arithmetic, halves going up
RoundExact(percent) == (255 * percent + 50) \div 100

\* Math.round(2.55 * percent) as the doubles give it, for the sample percents
RoundDouble(percent) ==
  CASE percent = 0 -> 0
    [] percent = 10 -> 26
    [] percent = 15 -> 38
    [] percent = 20 -> 51
    [] percent = 50 -> 127
    [] percent = 100 -> 255

\* a pair of consecutive calls fn1, fn2 of the same percent, the first one
\* clamping no channel
RoundTrips(fn1, fn2) ==
  { i \in 1..(Len(calls) - 1) :
      /\ calls[i].fn = fn1 /\ calls[i + 1].fn = fn2
      /\ Unclamped(calls[i], IF fn1 = "lightenColor"
                             THEN RoundDouble(calls[i].percent)
                             ELSE 0 - RoundDouble(calls[i].percent)) }

\* the text of a colour, its hexadecimal digits put in lower case
LowerCase(color) ==
  [k \in 1..Len(color) |->
     IF color[k] = "#" THEN "#" ELSE HexDigits[HexValue(color[k]) + 1]]

\* C23: lightenColor and darkenColor move each of R, G, B by
\* Math.round(2.55 * percent) as the doubles give it (127 at 50 percent),
\* clamped to [0,255], and write the result in lower-case digits; where the
\* first call clamps no channel, darken(lighten(c,p),p) and
\* lighten(darken(c,p),p) are c with its digits in lower case: the same
\* colour, the same text only if c had no upper-case digit.
C23_RoundTripSameColourLowerCase ==
  /\ \A i \in CallsOf("lightenColor") :
       MovedBy(calls[i], RoundDouble(calls[i].percent))
  /\ \A i \in CallsOf("darkenColor") :
       MovedBy(calls[i], 0 - RoundDouble(calls[i].percent))
  /\ \A i \in RoundTrips("lightenColor", "darkenColor") \cup
              RoundTrips("darkenColor", "lightenColor") :
       /\ calls[i + 1].result = LowerCase(calls[i].color)
       /\ Rgb(calls[i + 1].result) = Rgb(calls[i].color)

\* '#FF6B9D' darkened then lightened by 15 percent, no channel clamped
C23_Witness ==
  /\ 1 \in RoundTrips("darkenColor", "lightenColor")
  /\ calls[1].color = WHEEL_COLORS[1]
  /\ calls[1].percent = 15
  /\ calls[2].result = LowerCase(WHEEL_COLORS[1])
  /\ calls[2].result # WHEEL_COLORS[1]

\* C23 as stated: the channels move by round(2.55 * percent), clamped, and
\* an unclamped round trip returns c itself.
C23_RoundTripExact ==
  /\ \A i \in CallsOf("lightenColor") :
       MovedBy(calls[i], RoundExact(calls[i].percent))
  /\ \A i \in CallsOf("darkenColor") :
       MovedBy(calls[i], 0 - RoundExact(calls[i].percent))
  /\ \A i \in RoundTrips("lightenColor", "darkenColor") \cup
              RoundTrips("darkenColor", "lightenColor") :
       calls[i + 1].result = calls[i].color

-----------------------------------------------------------------------------
(* Spins and what is persisted *)

SpinSteps == {"handleSpin", "timer", "animationComplete", "animationInterrupted"}

\* C24: a step of a spin (a request, accepted or not, the completion or the
\* interruption of the animation) changes neither the category list nor the
\* title nor the two storage entries; a storage entry that changes becomes
\* the JSON text of the categories or of the title, which holds no rotation
\* and no spinning flag; and a page reload leaves the engine Idle, not
\* spinning, with rotation 0, from whatever state it is taken.
C24_SpinLeavesStoreReloadResetsEngine ==
  [][/\ lastOp'.name \in SpinSteps =>
          UNCHANGED << storedValue, storage, lastWrittenJson >>
     /\ \A k \in Keys :
          storage'[k] # storage[k] =>
            storage'[k] = Item(JsonStringify(k, storedValue'[k]))
     /\ lastOp'.name = "reload" =>
          Idle' /\ ~isSpinning' /\ currentRotation' = Zero]_vars

\* a spin completed after the title was stored and the page reloaded: the
\* wheel has turned and storage holds what the title change wrote
C24_Witness ==
  /\ lastOp = Op("animationComplete", "done")
  /\ reloads = 1 /\ edits > 0
  /\ currentRotation # Zero
  /\ storage[TitleKey] = Item(JsonStringify(TitleKey, title))
  /\ title # DEFAULT_TITLE
  /\ storage[CategoriesKey] = Item(JsonStringify(CategoriesKey, categories))

-----------------------------------------------------------------------------
(* Editing while the wheel spins *)

\* the centre of segment i (from 0) of a wheel of n segments is under the
\* pointer at rotation r
UnderPointer(i, n, r) ==
  r.units = (UnitsPerTurn - (2 * i + 1) * (UnitsPerTurn \div (2 * n)))
              % UnitsPerTurn

\* C25: at the step that notifies 'spin ended', the winner reported is an
\* element of the category list as it stands after the step, and the centre
\* of its segment on the wheel drawn from that list is under the pointer,
\* whatever the editor did to the list during the animation.
C25_WinnerInListUnderPointerAtEnd ==
  [][lastOp'.name = "animationComplete" =>
       /\ ~winner'.isNull
       /\ winner'.cat \in Range(categories')
       /\ UnderPointer(IndexOf(winner'.cat, categories'), Len(categories'),
                       currentRotation')]_vars

-----------------------------------------------------------------------------
(* The winner dialog *)

\* C26: in every reachable state the winner dialog is not shown while the
\* wheel is spinning, and when it is shown (App renders WinnerModal exactly
\* when showWinner is set) the winner held by App is not null.
C26_NoWinnerDialogWhileSpinning ==
  /\ ~(isSpinning /\ showWinner)
  /\ showWinner => ~winner.isNull

\* the dialog shows the winner of a spin started while the timer of 'spin
\* again' was still pending
C26_Witness ==
  /\ showWinner /\ ~isSpinning
  /\ ~winner.isNull
  /\ timers # << >>
  /\ lastOp = Op("animationComplete", "done")

-----------------------------------------------------------------------------
(* What an editor operation touches *)

\* cats without its entry j
WithoutIndex(cats, j) == SubSeq(cats, 1, j - 1) \o SubSeq(cats, j + 1, Len(cats))

\* after differs from before in the given field of one entry at most
OnlyFieldOfOne(before, after, field) ==
  /\ Len(after) = Len(before)
  /\ \E j \in 1..Len(before) :
       /\ \A k \in 1..Len(before) : k # j => after[k] = before[k]
       /\ after[j].id = before[j].id
       /\ field # "name" => after[j].name = before[j].name
       /\ field # "color" => after[j].color = before[j].color

\* C27: an accepted delete removes exactly one category, the count dropping
\* by exactly 1 and the others keeping their place; an accepted rename
\* changes the name of one category and nothing else; a recolor changes the
\* colour of one category and nothing else; no id changes.
C27_EditorTouchesOnlyTarget ==
  [][lastOp'.result = "done" =>
       /\ lastOp'.name = "handleDeleteCategory" =>
            /\ Len(categories') = Len(categories) - 1
            /\ \E j \in 1..Len(categories) :
                 categories' = WithoutIndex(categories, j)
       /\ lastOp'.name = "saveEdit" =>
            OnlyFieldOfOne(categories, categories', "name")
       /\ lastOp'.name = "regenerateColor" =>
            OnlyFieldOfOne(categories, categories', "color")]_vars

====
